---- MODULE Spec2Model ----
(***************************************************************************)
(* WebEye stream player: the native StreamPlayer facade (two decode        *)
(* threads, the host window's posted messages and its dispatch thread) and *)
(* the Frame buffer (Update, Draw, ToBmp).                                 *)
(*                                                                         *)
(*   Spec       the player: StartPlay/StartPlayPiP/Stop on the host        *)
(*              thread, Play/PlayPiP on worker threads, WndProc            *)
(*   FairSpec   Spec with the scheduler's fairness (liveness of Stop)      *)
(*   ApiSpec    the primary session with GetCurrentFrame / GetFrameSize    *)
(*   LockSpec   one Frame under its mutex: Update against Draw / ToBmp     *)
(*   FrameSpec  the Frame's pixel storage as a data structure              *)
(*   DrawSpec   Frame::Draw: overlay, zoom rectangle and crosshair         *)
(*   BrightenSpec  Frame::brightenUp on one pixel                          *)
(*   SetupSpec  SetupPiP / SetupZoom / SetupCross against paints           *)
(*   UninitSpec the primary session from Initialize to Uninitialize        *)
(*   InitializeSpec  UninitSpec with Initialize given null parameters      *)
(*   LockFairSpec  LockSpec with fair scheduling (liveness of the locks)   *)
(*   FrameUseSpec  the primary session against calls on *framePtr_         *)
(***************************************************************************)
EXTENDS Integers, Sequences, FiniteSets, TLC

\* ------------------------------------------------------------------ bounds
\* Worker threads the host creates in one run (both sessions together).
MaxThreads == 2
\* Largest picture width and height in pixels (12 = 4 * 3 bytes need no padding).
MaxW == 4
MaxH == 3
\* Number of different pictures of one size.
MaxSeed == 2
\* Largest zoom factor and crosshair half-length of a Draw.
MaxZoom == 2
MaxCross == 1
\* Rows of a frame in LockSpec, and Updates of one frame.
FrameRows == 2
MaxUpdates == 2

\* ------------------------------------------------------- program constants
WM_INVALIDATE == "WM_INVALIDATE"
WM_STREAMSTARTED == "WM_STREAMSTARTED"
WM_STREAMSTOPPED == "WM_STREAMSTOPPED"
WM_STREAMFAILED == "WM_STREAMFAILED"

Messages == {WM_INVALIDATE, WM_STREAMSTARTED, WM_STREAMSTOPPED, WM_STREAMFAILED}

Null == [null |-> TRUE]

\* The value brightenUp adds to each channel (0x6F).
BrightenValue == 111

VARIABLES
    \* --- StreamPlayer fields (StreamPlayer.h 147-169)
    stopRequested_,     \* boost::atomic<bool>
    stopRequestedPiP_,  \* boost::atomic<bool>
    framePtr_,          \* Null or the primary Frame (its dimensions)
    framePiPPtr_,       \* Null or the overlay Frame
    mutex_,             \* 0 or the id of the thread that owns the run token
    mutexPiP_,
    workerThread_,      \* 0 (not joinable) or the id of the thread it manages
    workerThreadPiP_,
    we_have_pip_,
    initialized,        \* Initialize has installed WndProc on the window
    \* --- threads and the window
    threads,            \* the running worker threads, by thread id
    hostPc,             \* position of the host (dispatch) thread
    nCreated,           \* threads created so far (the next thread's id is nCreated + 1)
    queue,              \* messages posted to the window and not yet dispatched
    terminated,         \* std::terminate was called
    \* --- observations
    lastCall,           \* the callback / paint the last step executed, and its thread
    exited,             \* the worker thread that returned in the last step
    apiResult,          \* what GetCurrentFrame / GetFrameSize returned in the last step
    stopReturned,       \* Stop() has returned and no Start was issued since
    \* --- the facade's configuration (StreamPlayer.h 147-169)
    playerParams_,      \* per member: it is not null
    pip_left_, pip_top_, pip_width_, zoom_, cross_,
    setupPc,            \* position of a thread inside SetupZoom
    uninitReturned,     \* Uninitialize() has returned and no Initialize since
    \* --- one Frame as a data structure (FrameSpec)
    frame,              \* Null or the Frame: width_, height_, lineSize, pixelsPtr_
    picture,            \* the picture of the last Update
    prevPicture,        \* the picture of the Update before it
    bmp,                \* Null or the last snapshot ToBmp wrote: header, pixels
    exportedFrom,       \* the Frame as it was when bmp was written
    drawn,              \* what the last Draw since the last Update did
    \* --- the two Frames under their mutexes (LockSpec)
    frameMutex,         \* per frame: "none" or the thread that owns Frame::mutex_
    rows,               \* per frame and row: the number of the Update that wrote it
    updater,            \* per frame: its decode thread inside Frame::Update
    reader              \* the host thread inside Frame::Draw / Frame::ToBmp

sessMain == <<stopRequested_, framePtr_, mutex_>>
sessPiP == <<stopRequestedPiP_, framePiPPtr_, mutexPiP_>>
hostState == <<workerThread_, workerThreadPiP_, initialized, hostPc, nCreated,
               terminated, stopReturned>>

playerVars == <<stopRequested_, stopRequestedPiP_, framePtr_, framePiPPtr_, mutex_,
                mutexPiP_, workerThread_, workerThreadPiP_, we_have_pip_, initialized,
                threads, hostPc, nCreated, queue, terminated, lastCall, exited,
                apiResult, stopReturned, playerParams_, pip_left_, pip_top_,
                pip_width_, zoom_, cross_, setupPc, uninitReturned>>

config == <<pip_left_, pip_top_, pip_width_, zoom_, cross_>>
facade == <<playerParams_, config, setupPc, uninitReturned>>

frameVars == <<frame, picture, prevPicture, bmp, exportedFrom, drawn>>

lockVars == <<frameMutex, rows, updater, reader>>

vars == <<playerVars, frameVars, lockVars>>

\* ---------------------------------------------------------------- helpers
Min(a, b) == IF a < b THEN a ELSE b

\* Frame dimensions of the primary stream (width # height) and of the overlay
\* stream.
StreamDims == { [width_ |-> 2, height_ |-> 1] }
StreamDimsPiP == { [width_ |-> 1, height_ |-> 1] }

ThreadIds == DOMAIN threads

\* A thread whose function has returned: it is no longer among the threads.
Finished(t) == t \notin DOMAIN threads

\* The threads without thread t, whose function returns.
Return(t) == [u \in DOMAIN threads \ {t} |-> threads[u]]

\* A thread inside Play/PlayPiP after try_lock succeeded, until it returns.
InRun(t) == threads[t].pc # "start"

NewThread(sess, idle) ==
    [id |-> nCreated + 1, sess |-> sess, pc |-> "start", firstFrame |-> TRUE, raised |-> FALSE,
     nStarted |-> 0, nStopped |-> 0, nFailed |-> 0, last |-> "none",
     idleAtStart |-> idle]

NoExit == [pc |-> "none"]

\* The thread's record once try_lock has succeeded (idleAtStart describes a
\* thread that has not yet tried).
Entered(th, pc, raised) ==
    [th EXCEPT !.pc = pc, !.raised = raised, !.idleAtStart = FALSE]

\* The thread's record after it has posted msg and moved to pc.
Posted(th, msg, pc) ==
    [th EXCEPT !.pc = pc, !.last = msg,
               !.nStarted = IF msg = WM_STREAMSTARTED THEN Min(2, @ + 1) ELSE @,
               !.nStopped = IF msg = WM_STREAMSTOPPED THEN Min(2, @ + 1) ELSE @,
               !.nFailed  = IF msg = WM_STREAMFAILED  THEN Min(2, @ + 1) ELSE @]

\* A callback or a paint runs on thread th: "host", or the session ("main",
\* "pip") of a decode thread.
Call(fn, th, pip) == [fn |-> fn, thread |-> th, pip |-> pip]
NoCall == Call("none", "none", FALSE)
NoResult == [op |-> "none"]

\* The callback the host registered for a message.
Callback(msg) ==
    CASE msg = WM_STREAMSTARTED -> "streamStartedCallback"
      [] msg = WM_STREAMSTOPPED -> "streamStoppedCallback"
      [] msg = WM_STREAMFAILED  -> "streamFailedCallback"
      [] OTHER                  -> "InvalidateRect"

\* What a decode thread would do if it raised the event itself.
CallDirectly(t, msg) ==
    /\ lastCall' = Call(Callback(msg), threads[t].sess, FALSE)
    /\ UNCHANGED queue

\* ::PostMessage(window, msg, 0, 0) from thread t: asynchronous, the message
\* joins the window's posted messages and nothing runs on the calling thread.
\* queue[msg] counts the pending messages of a kind; pending repaint requests
\* count once (InvalidateRect for one or for several marks the same rectangle).
PostMessage(t, msg) ==
    /\ queue' = [queue EXCEPT ![msg] = IF msg = WM_INVALIDATE THEN 1 ELSE @ + 1]
    /\ lastCall' = NoCall

\* A step of worker thread t; a thread whose function returns is observed.
Observed(t) ==
    /\ ~terminated
    /\ UNCHANGED <<frameVars, lockVars, facade>>
    /\ exited' = IF t \in DOMAIN threads' THEN NoExit ELSE threads[t]
    /\ apiResult' = NoResult

\* A step of the host thread.
HostStep == ~terminated /\ exited' = NoExit /\ UNCHANGED <<frameVars, lockVars>>

\* A step that posts nothing and calls nothing.
Quiet == UNCHANGED queue /\ lastCall' = NoCall

\* boost::unique_lock::try_lock on a boost::mutex whose owner is m (0: free).
TryLockAlwaysSucceeds(m) == TRUE
try_lock(m) == m = 0

\* StreamPlayerParams: for the window and each callback, whether it is non-null.
Params(window, started, stopped, failed) ==
    [window |-> window, streamStartedCallback |-> started,
     streamStoppedCallback |-> stopped, streamFailedCallback |-> failed]
NoParams == Params(FALSE, FALSE, FALSE, FALSE)

\* ------------------------------------------------------------------ Init
\* `player` is a global object: zero-initialised, then StreamPlayer() runs.
PlayerInit ==
    /\ stopRequested_ = FALSE
    /\ stopRequestedPiP_ = FALSE
    /\ framePtr_ = Null
    /\ framePiPPtr_ = Null
    /\ mutex_ = 0
    /\ mutexPiP_ = 0
    /\ workerThread_ = 0
    /\ workerThreadPiP_ = 0
    /\ we_have_pip_ = FALSE
    /\ initialized = FALSE
    /\ threads = <<>>
    /\ hostPc = "idle"
    /\ nCreated = 0
    /\ queue = [m \in Messages |-> 0]
    /\ exited = NoExit
    /\ terminated = FALSE
    /\ lastCall = NoCall
    /\ apiResult = NoResult
    /\ stopReturned = FALSE
    /\ playerParams_ = NoParams
    /\ pip_left_ = 0 /\ pip_top_ = 0 /\ pip_width_ = 0 /\ zoom_ = 0 /\ cross_ = 0
    /\ setupPc = "idle"
    /\ uninitReturned = FALSE

\* Decoder::GetNextFrame(framePtr): the next picture is ingested into the frame
\* (created from the first picture, updated afterwards), or the stream has
\* ended and the frame is dropped, or the decoder throws.
GetNextFrame(fp, outcome, dims) ==
    CASE outcome = "picture" -> IF fp = Null THEN dims ELSE fp
      [] outcome = "end"     -> Null
      [] OTHER               -> fp

\* ------------------------------------------------- the primary decode thread
mainUnch == <<sessPiP, we_have_pip_, hostState>>

\* Play, lines 55-64: take the run token or return; with the token, construct
\* the Decoder, which returns or throws.
PlayTryLock(t) ==
    /\ threads[t].sess = "main" /\ threads[t].pc = "start"
    /\ IF try_lock(mutex_)
       THEN /\ mutex_' = t
            /\ \E ok \in BOOLEAN :
                 threads' = IF ok THEN [threads EXCEPT ![t] = Entered(@, "clear", FALSE)]
                            ELSE [threads EXCEPT ![t] = Entered(@, "catch", TRUE)]
       ELSE /\ mutex_' = mutex_
            /\ threads' = Return(t)
    /\ Quiet
    /\ UNCHANGED <<stopRequested_, framePtr_, mainUnch>>
    /\ Observed(t)

\* Play, lines 66-67.
PlayClearStop(t) ==
    /\ threads[t].sess = "main" /\ threads[t].pc = "clear"
    /\ stopRequested_' = FALSE
    /\ threads' = [threads EXCEPT ![t].pc = "reset", ![t].firstFrame = TRUE]
    /\ Quiet
    /\ UNCHANGED <<framePtr_, mutex_, mainUnch>>
    /\ Observed(t)

\* Play, line 69.
PlayResetFrame(t) ==
    /\ threads[t].sess = "main" /\ threads[t].pc = "reset"
    /\ framePtr_' = Null
    /\ threads' = [threads EXCEPT ![t].pc = "fetch"]
    /\ Quiet
    /\ UNCHANGED <<stopRequested_, mutex_, mainUnch>>
    /\ Observed(t)

\* Play, line 73.
PlayGetNextFrame(t) ==
    /\ threads[t].sess = "main" /\ threads[t].pc = "fetch"
    /\ \E outcome \in {"picture", "end", "throw"}, dims \in StreamDims :
         /\ framePtr_' = GetNextFrame(framePtr_, outcome, dims)
         /\ threads' = IF outcome = "throw"
                       THEN [threads EXCEPT ![t].pc = "catch", ![t].raised = TRUE]
                       ELSE [threads EXCEPT ![t].pc = "check"]
    /\ Quiet
    /\ UNCHANGED <<stopRequested_, mutex_, mainUnch>>
    /\ Observed(t)

\* Lines 75-81 without the break at line 78: the loop goes on after Stopped.
PlayCheckStopNoBreak(t) ==
    /\ threads[t].sess = "main" /\ threads[t].pc = "check"
    /\ IF stopRequested_ \/ framePtr_ = Null
       THEN /\ PostMessage(t, WM_STREAMSTOPPED)
            /\ threads' = [threads EXCEPT ![t] = Posted(@, WM_STREAMSTOPPED, "sleep")]
       ELSE /\ PostMessage(t, WM_INVALIDATE)
            /\ threads' = [threads EXCEPT ![t] = Posted(@, WM_INVALIDATE, "sleep")]
    /\ UNCHANGED <<stopRequested_, framePtr_, mutex_, mainUnch>>
    /\ Observed(t)

\* Play, lines 75-81.
PlayCheckStop(t) ==
    /\ threads[t].sess = "main" /\ threads[t].pc = "check"
    /\ IF stopRequested_ \/ framePtr_ = Null
       THEN /\ PostMessage(t, WM_STREAMSTOPPED)
            /\ threads' = [threads EXCEPT ![t] = Posted(@, WM_STREAMSTOPPED, "unlock")]
       ELSE /\ PostMessage(t, WM_INVALIDATE)
            /\ threads' = [threads EXCEPT ![t] = Posted(@, WM_INVALIDATE, "sleep")]
    /\ UNCHANGED <<stopRequested_, framePtr_, mutex_, mainUnch>>
    /\ Observed(t)

\* Lines 83-90 without the firstFrame test: Started after every frame.
PlayFirstFrameAlways(t) ==
    /\ threads[t].sess = "main" /\ threads[t].pc = "sleep"
    /\ PostMessage(t, WM_STREAMSTARTED)
    /\ threads' = [threads EXCEPT
           ![t] = [Posted(@, WM_STREAMSTARTED, "fetch") EXCEPT !.firstFrame = FALSE]]
    /\ UNCHANGED <<stopRequested_, framePtr_, mutex_, mainUnch>>
    /\ Observed(t)

\* Play, lines 83-90: the inter-frame sleep, then Started after the first frame.
PlayFirstFrame(t) ==
    /\ threads[t].sess = "main" /\ threads[t].pc = "sleep"
    /\ IF threads[t].firstFrame
       THEN /\ PostMessage(t, WM_STREAMSTARTED)
            /\ threads' = [threads EXCEPT
                   ![t] = [Posted(@, WM_STREAMSTARTED, "fetch") EXCEPT !.firstFrame = FALSE]]
       ELSE /\ threads' = [threads EXCEPT ![t].pc = "fetch"]
            /\ Quiet
    /\ UNCHANGED <<stopRequested_, framePtr_, mutex_, mainUnch>>
    /\ Observed(t)

\* Play, lines 93-96.
PlayCatch(t) ==
    /\ threads[t].sess = "main" /\ threads[t].pc = "catch"
    /\ PostMessage(t, WM_STREAMFAILED)
    /\ threads' = [threads EXCEPT ![t] = Posted(@, WM_STREAMFAILED, "unlock")]
    /\ UNCHANGED <<stopRequested_, framePtr_, mutex_, mainUnch>>
    /\ Observed(t)

\* Play, line 97: the unique_lock's destructor releases the run token.
PlayUnlock(t) ==
    /\ threads[t].sess = "main" /\ threads[t].pc = "unlock"
    /\ mutex_' = 0
    /\ threads' = Return(t)
    /\ Quiet
    /\ UNCHANGED <<stopRequested_, framePtr_, mainUnch>>
    /\ Observed(t)

Play(t) ==
    \/ PlayTryLock(t)
    \/ PlayClearStop(t)
    \/ PlayResetFrame(t)
    \/ PlayGetNextFrame(t)
    \/ PlayCheckStop(t)
    \/ PlayFirstFrame(t)
    \/ PlayCatch(t)
    \/ PlayUnlock(t)

\* ------------------------------------------------- the overlay decode thread
pipUnch == <<sessMain, hostState>>

\* PlayPiP, lines 101-110.
PlayPiPTryLock(t) ==
    /\ threads[t].sess = "pip" /\ threads[t].pc = "start"
    /\ IF try_lock(mutexPiP_)
       THEN /\ mutexPiP_' = t
            /\ \E ok \in BOOLEAN :
                 threads' = IF ok THEN [threads EXCEPT ![t].pc = "clear"]
                            ELSE [threads EXCEPT ![t].pc = "catch", ![t].raised = TRUE]
       ELSE /\ mutexPiP_' = mutexPiP_
            /\ threads' = Return(t)
    /\ Quiet
    /\ UNCHANGED <<stopRequestedPiP_, framePiPPtr_, we_have_pip_, pipUnch>>
    /\ Observed(t)

\* PlayPiP, lines 112-113.
PlayPiPClearStop(t) ==
    /\ threads[t].sess = "pip" /\ threads[t].pc = "clear"
    /\ stopRequestedPiP_' = FALSE
    /\ threads' = [threads EXCEPT ![t].pc = "reset", ![t].firstFrame = TRUE]
    /\ Quiet
    /\ UNCHANGED <<framePiPPtr_, mutexPiP_, we_have_pip_, pipUnch>>
    /\ Observed(t)

\* PlayPiP, line 115.
PlayPiPResetFrame(t) ==
    /\ threads[t].sess = "pip" /\ threads[t].pc = "reset"
    /\ framePiPPtr_' = Null
    /\ threads' = [threads EXCEPT ![t].pc = "fetch"]
    /\ Quiet
    /\ UNCHANGED <<stopRequestedPiP_, mutexPiP_, we_have_pip_, pipUnch>>
    /\ Observed(t)

\* PlayPiP, line 119.
PlayPiPGetNextFrame(t) ==
    /\ threads[t].sess = "pip" /\ threads[t].pc = "fetch"
    /\ \E outcome \in {"picture", "end", "throw"}, dims \in StreamDimsPiP :
         /\ framePiPPtr_' = GetNextFrame(framePiPPtr_, outcome, dims)
         /\ threads' = IF outcome = "throw"
                       THEN [threads EXCEPT ![t].pc = "catch", ![t].raised = TRUE]
                       ELSE [threads EXCEPT ![t].pc = "check"]
    /\ Quiet
    /\ UNCHANGED <<stopRequestedPiP_, mutexPiP_, we_have_pip_, pipUnch>>
    /\ Observed(t)

\* Lines 121-128 without line 123: the flag is left as it is on stop and end.
PlayPiPCheckStopKeepsFlag(t) ==
    /\ threads[t].sess = "pip" /\ threads[t].pc = "check"
    /\ threads' = IF stopRequestedPiP_ \/ framePiPPtr_ = Null
                  THEN [threads EXCEPT ![t].pc = "unlock"]
                  ELSE [threads EXCEPT ![t].pc = "sleep"]
    /\ Quiet
    /\ UNCHANGED <<stopRequestedPiP_, framePiPPtr_, mutexPiP_, we_have_pip_, pipUnch>>
    /\ Observed(t)

\* PlayPiP, lines 121-128: no message is posted (the calls are commented out).
PlayPiPCheckStop(t) ==
    /\ threads[t].sess = "pip" /\ threads[t].pc = "check"
    /\ IF stopRequestedPiP_ \/ framePiPPtr_ = Null
       THEN /\ we_have_pip_' = FALSE
            /\ threads' = [threads EXCEPT ![t].pc = "unlock"]
       ELSE /\ we_have_pip_' = we_have_pip_
            /\ threads' = [threads EXCEPT ![t].pc = "sleep"]
    /\ Quiet
    /\ UNCHANGED <<stopRequestedPiP_, framePiPPtr_, mutexPiP_, pipUnch>>
    /\ Observed(t)

\* PlayPiP, lines 130-138.
PlayPiPFirstFrame(t) ==
    /\ threads[t].sess = "pip" /\ threads[t].pc = "sleep"
    /\ IF threads[t].firstFrame
       THEN /\ we_have_pip_' = TRUE
            /\ threads' = [threads EXCEPT ![t].pc = "fetch", ![t].firstFrame = FALSE]
       ELSE /\ we_have_pip_' = we_have_pip_
            /\ threads' = [threads EXCEPT ![t].pc = "fetch"]
    /\ Quiet
    /\ UNCHANGED <<stopRequestedPiP_, framePiPPtr_, mutexPiP_, pipUnch>>
    /\ Observed(t)

\* PlayPiP, lines 141-145 with the commented-out PostMessage of line 144.
PlayPiPCatchPosts(t) ==
    /\ threads[t].sess = "pip" /\ threads[t].pc = "catch"
    /\ we_have_pip_' = FALSE
    /\ threads' = [threads EXCEPT ![t].pc = "unlock"]
    /\ PostMessage(t, WM_STREAMFAILED)
    /\ UNCHANGED <<stopRequestedPiP_, framePiPPtr_, mutexPiP_, pipUnch>>
    /\ Observed(t)

\* PlayPiP, lines 141-145.
PlayPiPCatch(t) ==
    /\ threads[t].sess = "pip" /\ threads[t].pc = "catch"
    /\ we_have_pip_' = FALSE
    /\ threads' = [threads EXCEPT ![t].pc = "unlock"]
    /\ Quiet
    /\ UNCHANGED <<stopRequestedPiP_, framePiPPtr_, mutexPiP_, pipUnch>>
    /\ Observed(t)

\* PlayPiP, line 146.
PlayPiPUnlock(t) ==
    /\ threads[t].sess = "pip" /\ threads[t].pc = "unlock"
    /\ mutexPiP_' = 0
    /\ threads' = Return(t)
    /\ Quiet
    /\ UNCHANGED <<stopRequestedPiP_, framePiPPtr_, we_have_pip_, pipUnch>>
    /\ Observed(t)

PlayPiP(t) ==
    \/ PlayPiPTryLock(t)
    \/ PlayPiPClearStop(t)
    \/ PlayPiPResetFrame(t)
    \/ PlayPiPGetNextFrame(t)
    \/ PlayPiPCheckStop(t)
    \/ PlayPiPFirstFrame(t)
    \/ PlayPiPCatch(t)
    \/ PlayPiPUnlock(t)

\* ------------------------------------------------------- the host thread
\* What no host call writes.
sessUnch == <<mutex_, mutexPiP_, framePtr_, framePiPPtr_>>
hostUnch == <<sessUnch, facade>>
flags == <<stopRequested_, stopRequestedPiP_>>
handles == <<workerThread_, workerThreadPiP_>>

\* A host step that runs no callback and returns no frame data.
HostQuiet == lastCall' = NoCall /\ apiResult' = NoResult

\* StreamPlayer::Initialize with a window and the three callbacks, lines 21-41.
Initialize ==
    /\ HostStep
    /\ hostPc = "idle" /\ ~initialized
    /\ playerParams_' = Params(TRUE, TRUE, TRUE, TRUE)
    /\ initialized' = TRUE
    /\ pip_left_' = 0 /\ pip_top_' = 0 /\ pip_width_' = 0
    /\ we_have_pip_' = FALSE
    /\ zoom_' = 1
    /\ cross_' = 0
    /\ uninitReturned' = FALSE
    /\ HostQuiet
    /\ UNCHANGED <<flags, handles, threads, nCreated, hostPc, queue, terminated,
                   stopReturned, setupPc, sessUnch>>

\* Parameters with a null window or a null callback.
InvalidParams ==
    { Params(w, a, b, c) : w \in BOOLEAN, a \in BOOLEAN, b \in BOOLEAN, c \in BOOLEAN }
        \ { Params(TRUE, TRUE, TRUE, TRUE) }

\* The exported Initialize with invalid parameters, build with assert enabled:
\* the assert of lines 23-26 aborts the process; nothing is returned.
InitializeAsserts ==
    /\ HostStep
    /\ hostPc = "idle" /\ ~initialized
    /\ terminated' = TRUE
    /\ HostQuiet
    /\ UNCHANGED <<flags, handles, we_have_pip_, initialized, threads, nCreated, hostPc,
                   queue, stopReturned, hostUnch>>

\* The exported Initialize with invalid parameters, build with NDEBUG: lines
\* 28-40 run as for valid parameters, nothing throws, and part_000 line 22
\* returns 0. SetWindowLongPtr installs the hook on a window that exists.
InitializeUnchecked ==
    /\ HostStep
    /\ hostPc = "idle" /\ ~initialized
    /\ \E p \in InvalidParams :
         /\ playerParams_' = p
         /\ initialized' = p.window
         /\ apiResult' = [op |-> "Initialize", status |-> 0, params |-> p]
    /\ pip_left_' = 0 /\ pip_top_' = 0 /\ pip_width_' = 0
    /\ we_have_pip_' = FALSE
    /\ zoom_' = 1
    /\ cross_' = 0
    /\ uninitReturned' = FALSE
    /\ lastCall' = NoCall
    /\ UNCHANGED <<flags, handles, threads, nCreated, hostPc, queue, terminated,
                   stopReturned, setupPc, sessUnch>>

\* The session is idle as far as the host can tell: every primary thread still
\* alive has posted its Stopped/Failed notification, and the host has handled
\* every such notification.
HostSeesIdle ==
    /\ \A u \in ThreadIds : threads[u].sess = "main" => threads[u].pc = "unlock"
    /\ queue[WM_STREAMSTOPPED] = 0 /\ queue[WM_STREAMFAILED] = 0

\* boost::thread(f, ...): a new thread, about to run f.
Spawn(sess, idle) == threads @@ ((nCreated + 1) :> NewThread(sess, idle))

\* StartPlay, line 45: the new boost::thread is move-assigned to workerThread_;
\* a thread workerThread_ still managed is detached (Boost.Thread version 2)...
StartPlay ==
    /\ HostStep
    /\ hostPc = "idle" /\ initialized /\ nCreated < MaxThreads
    /\ threads' = Spawn("main", HostSeesIdle)
    /\ nCreated' = nCreated + 1
    /\ workerThread_' = nCreated + 1
    /\ stopReturned' = FALSE
    /\ HostQuiet
    /\ UNCHANGED <<flags, workerThreadPiP_, we_have_pip_, initialized, hostPc, queue,
                   terminated, hostUnch>>

\* ... or the assignment calls std::terminate (Boost.Thread version 3 and later,
\* BOOST_THREAD_PROVIDES_THREAD_MOVE_ASSIGN_CALLS_TERMINATE_IF_JOINABLE).
StartPlayTerminate ==
    /\ HostStep
    /\ hostPc = "idle" /\ initialized /\ nCreated < MaxThreads
    /\ workerThread_ # 0
    /\ terminated' = TRUE
    /\ HostQuiet
    /\ UNCHANGED <<flags, handles, we_have_pip_, initialized, threads, nCreated, hostPc,
                   queue, stopReturned, hostUnch>>

\* StartPlayPiP, line 50.
StartPlayPiP ==
    /\ HostStep
    /\ hostPc = "idle" /\ initialized /\ nCreated < MaxThreads
    /\ threads' = Spawn("pip", FALSE)
    /\ nCreated' = nCreated + 1
    /\ workerThreadPiP_' = nCreated + 1
    /\ stopReturned' = FALSE
    /\ HostQuiet
    /\ UNCHANGED <<flags, workerThread_, we_have_pip_, initialized, hostPc, queue,
                   terminated, hostUnch>>

StartPlayPiPTerminate ==
    /\ HostStep
    /\ hostPc = "idle" /\ initialized /\ nCreated < MaxThreads
    /\ workerThreadPiP_ # 0
    /\ terminated' = TRUE
    /\ HostQuiet
    /\ UNCHANGED <<flags, handles, we_have_pip_, initialized, threads, nCreated, hostPc,
                   queue, stopReturned, hostUnch>>

\* Stop, line 150.
StopRequest ==
    /\ HostStep
    /\ hostPc = "idle" /\ initialized
    /\ stopRequested_' = TRUE
    /\ hostPc' = "stop151"
    /\ stopReturned' = FALSE
    /\ HostQuiet
    /\ UNCHANGED <<stopRequestedPiP_, handles, we_have_pip_, initialized, threads,
                   nCreated, queue, terminated, hostUnch>>

\* Stop, line 151.
StopRequestPiP ==
    /\ HostStep
    /\ hostPc = "stop151"
    /\ stopRequestedPiP_' = TRUE
    /\ hostPc' = "join"
    /\ HostQuiet
    /\ UNCHANGED <<stopRequested_, handles, we_have_pip_, initialized, threads,
                   nCreated, queue, terminated, stopReturned, hostUnch>>

\* Stop, lines 153-154: join() returns when the managed thread has finished.
StopJoin ==
    /\ HostStep
    /\ hostPc = "join"
    /\ workerThread_ # 0 => Finished(workerThread_)
    /\ workerThread_' = 0
    /\ hostPc' = "joinPiP"
    /\ HostQuiet
    /\ UNCHANGED <<flags, workerThreadPiP_, we_have_pip_, initialized, threads,
                   nCreated, queue, terminated, stopReturned, hostUnch>>

\* Stop, lines 156-158.
StopJoinPiP ==
    /\ HostStep
    /\ hostPc = "joinPiP"
    /\ workerThreadPiP_ # 0 => Finished(workerThreadPiP_)
    /\ workerThreadPiP_' = 0
    /\ hostPc' = "idle"
    /\ stopReturned' = TRUE
    /\ HostQuiet
    /\ UNCHANGED <<flags, workerThread_, we_have_pip_, initialized, threads,
                   nCreated, queue, terminated, hostUnch>>

\* ---------------------------------------------------- WndProc and the API
\* WndProc, lines 194-221, for a posted message: InvalidateRect for a repaint
\* request, RaiseStream...Event (the host's callback) for the other three.
WndProc ==
    /\ HostStep
    /\ hostPc = "idle" /\ initialized
    /\ \E m \in Messages :
       /\ queue[m] > 0
       /\ queue' = [queue EXCEPT ![m] = @ - 1]
       /\ lastCall' = IF m # WM_INVALIDATE /\ playerParams_[Callback(m)]
                      THEN Call(Callback(m), "host", FALSE)
                      ELSE NoCall
    /\ apiResult' = NoResult
    /\ UNCHANGED <<flags, handles, we_have_pip_, initialized, threads, nCreated, hostPc,
                   terminated, stopReturned, hostUnch>>

\* WndProc on WM_PAINT, line 201 (after InvalidateRect, or when the system
\* invalidates the window), and DrawFrame, lines 176-183.
DrawFrame ==
    /\ HostStep
    /\ hostPc = "idle" /\ initialized
    /\ lastCall' = IF framePtr_ # Null
                   THEN Call("Draw", "host", we_have_pip_ /\ framePiPPtr_ # Null)
                        @@ [zoom |-> zoom_, cross |-> cross_, pip_width |-> pip_width_,
                            pip_top |-> pip_top_, pip_left |-> pip_left_]
                   ELSE NoCall
    /\ apiResult' = NoResult
    /\ UNCHANGED <<flags, handles, we_have_pip_, initialized, threads, nCreated, hostPc,
                   queue, terminated, stopReturned, hostUnch>>

\* Frame::Width() / Frame::Height(): the immutable dimensions.
Width(f) == f.width_
Height(f) == f.height_

\* A header with biWidth and biHeight exchanged.
ToBmpHeaderSwapped(f) ==
    [biBitCount |-> 24, biHeight |-> f.width_, biWidth |-> f.height_, biPlanes |-> 1]

\* Frame::ToBmp, lines 143-150: the BITMAPINFOHEADER of the snapshot.
ToBmpHeader(f) ==
    [biBitCount |-> 24, biHeight |-> f.height_, biWidth |-> f.width_, biPlanes |-> 1]

\* The exported functions turn a runtime_error into status 1 (part_000 53-79).
Status(threw) == IF threw THEN 1 ELSE 0

\* StreamPlayer::GetCurrentFrame, lines 226-232, through the exported function;
\* CoTaskMemAlloc in ToBmp succeeds or returns null.
GetCurrentFrame ==
    /\ HostStep
    /\ hostPc = "idle" /\ initialized
    /\ \E allocOk \in BOOLEAN :
         apiResult' =
           IF framePtr_ = Null
           THEN [op |-> "GetCurrentFrame", status |-> Status(TRUE), allocOk |-> allocOk]
           ELSE IF ~allocOk
           THEN [op |-> "GetCurrentFrame", status |-> Status(TRUE), allocOk |-> allocOk]
           ELSE [op |-> "GetCurrentFrame", status |-> Status(FALSE), allocOk |-> allocOk,
                 header |-> ToBmpHeader(framePtr_)]
    /\ lastCall' = NoCall
    /\ UNCHANGED <<flags, handles, we_have_pip_, initialized, threads, nCreated, hostPc,
                   queue, terminated, stopReturned, hostUnch>>

\* StreamPlayer::GetFrameSize, lines 234-243, through the exported function.
GetFrameSize ==
    /\ HostStep
    /\ hostPc = "idle" /\ initialized
    /\ apiResult' =
           IF framePtr_ = Null
           THEN [op |-> "GetFrameSize", status |-> Status(TRUE)]
           ELSE [op |-> "GetFrameSize", status |-> Status(FALSE),
                 width |-> Width(framePtr_), height |-> Height(framePtr_)]
    /\ lastCall' = NoCall
    /\ UNCHANGED <<flags, handles, we_have_pip_, initialized, threads, nCreated, hostPc,
                   queue, terminated, stopReturned, hostUnch>>

\* The member calls the dispatch thread makes on *framePtr_ after it found the
\* pointer non-null: Draw (DrawFrame 180/182), ToBmp (GetCurrentFrame 231),
\* Width/Height (GetFrameSize 241-242).
FrameCalls == {"Draw", "ToBmp", "Width"}

\* DrawFrame line 178, GetCurrentFrame 228, GetFrameSize 238: the pointer is
\* non-null and the call on the frame begins; the frame is in use from here.
FrameCallEnter ==
    /\ HostStep
    /\ hostPc = "idle" /\ initialized
    /\ framePtr_ # Null
    /\ \E fn \in FrameCalls : hostPc' = fn
    /\ HostQuiet
    /\ UNCHANGED <<flags, handles, we_have_pip_, initialized, threads, nCreated,
                   queue, terminated, stopReturned, hostUnch>>

\* The call on the frame returns.
FrameCallReturn ==
    /\ HostStep
    /\ hostPc \in FrameCalls
    /\ hostPc' = "idle"
    /\ HostQuiet
    /\ UNCHANGED <<flags, handles, we_have_pip_, initialized, threads, nCreated,
                   queue, terminated, stopReturned, hostUnch>>

\* ------------------------------------------------------------ the Frame
\* GetPadding(lineSize): the bytes that bring a row to a multiple of 4.
GetPadding(lineSize) == (4 - (lineSize % 4)) % 4

\* Bytes of one stored row: line 19, lines 41 and 44.
Stride(f) == f.lineSize + GetPadding(f.lineSize)

\* What `new uint8_t[n]` may hold before it is written.
Garbage == {0, 205}

\* A decoded BGR24 picture of width x height pixels: linesize[0] and data[0].
\* Every byte is non-zero and no two rows are equal.
AVPicture(width, height, seed) ==
    [linesize |-> 3 * width,
     data |-> [i \in 1..(3 * width * height) |-> 50 * seed + i]]

Pictures(width, height) == { AVPicture(width, height, seed) : seed \in 1..MaxSeed }

\* ::CopyMemory(dst + dstOff, src + srcOff, n) on byte sequences (offsets from 0).
CopyMemory(dst, dstOff, src, srcOff, n) ==
    [i \in 1..Len(dst) |->
        IF dstOff < i /\ i <= dstOff + n THEN src[srcOff + (i - dstOff)] ELSE dst[i]]

\* ::SecureZeroMemory(dst + off, n).
SecureZeroMemory(dst, off, n) ==
    [i \in 1..Len(dst) |-> IF off < i /\ i <= off + n THEN 0 ELSE dst[i]]

\* The loop body without line 44: the padding bytes are left as they were.
UpdateRowNoZero(f, avPicture, y) ==
    [f EXCEPT !.pixelsPtr_ =
        CopyMemory(@, (avPicture.linesize + GetPadding(avPicture.linesize)) * y,
                   avPicture.data, (f.height_ - y - 1) * avPicture.linesize,
                   avPicture.linesize)]

\* Frame::Update, lines 41-44: the loop body for row y.
UpdateRow(f, avPicture, y) ==
    [f EXCEPT !.pixelsPtr_ =
        SecureZeroMemory(
            CopyMemory(@, (avPicture.linesize + GetPadding(avPicture.linesize)) * y,
                       avPicture.data, (f.height_ - y - 1) * avPicture.linesize,
                       avPicture.linesize),
            (avPicture.linesize + GetPadding(avPicture.linesize)) * y + avPicture.linesize,
            GetPadding(avPicture.linesize))]

\* Frame::Update, lines 39-45: for (y = from; y < height_; ++y).
RECURSIVE UpdateFrom(_, _, _)
UpdateFrom(f, avPicture, y) ==
    IF y < f.height_ THEN UpdateFrom(UpdateRow(f, avPicture, y), avPicture, y + 1) ELSE f

\* Frame::Update, lines 32-46.
Update(f, avPicture) == UpdateFrom(f, avPicture, 0)

\* Frame::Frame, lines 13-30; g is what the new array holds.
Frame(width, height, avPicture, g) ==
    Update([width_ |-> width, height_ |-> height, lineSize |-> avPicture.linesize,
            pixelsPtr_ |-> [i \in 1..(height * (avPicture.linesize
                                                 + GetPadding(avPicture.linesize))) |-> g]],
           avPicture)

\* Frame::ToBmp, lines 137-153: the header and height_ * width_ * 3 pixel bytes.
ToBmp(f) ==
    [header |-> [biBitCount |-> 24, biHeight |-> f.height_, biWidth |-> f.width_,
                 biPlanes |-> 1],
     pixels |-> SubSeq(f.pixelsPtr_, 1, f.height_ * f.width_ * 3)]

\* StreamPlayerProxy.GetCurrentFrame, lines 416-421: the stride the managed
\* side derives from the header and reads the pixel rows with.
ProxyStride(biHeader) ==
    LET stride == biHeader.biWidth * (biHeader.biBitCount \div 8)
        padding == IF stride % 4 > 0 THEN 4 - (stride % 4) ELSE 0
    IN  stride + padding

\* ------------------------------------------------------------ Uninitialize
\* What Uninitialize leaves alone while it is inside Stop().
uninitUnch == <<we_have_pip_, initialized, threads, nCreated, queue, terminated, hostUnch>>

\* Uninitialize, line 162: Stop(), line 150.
UninitializeStop ==
    /\ HostStep
    /\ hostPc = "idle" /\ initialized
    /\ stopRequested_' = TRUE
    /\ hostPc' = "u151"
    /\ stopReturned' = FALSE
    /\ HostQuiet
    /\ UNCHANGED <<stopRequestedPiP_, handles, uninitUnch>>

\* Stop, line 151.
UninitializeStopPiP ==
    /\ HostStep
    /\ hostPc = "u151"
    /\ stopRequestedPiP_' = TRUE
    /\ hostPc' = "ujoin"
    /\ HostQuiet
    /\ UNCHANGED <<stopRequested_, handles, stopReturned, uninitUnch>>

\* Stop, lines 153-154.
UninitializeJoin ==
    /\ HostStep
    /\ hostPc = "ujoin"
    /\ workerThread_ # 0 => Finished(workerThread_)
    /\ workerThread_' = 0
    /\ hostPc' = "ujoinPiP"
    /\ HostQuiet
    /\ UNCHANGED <<flags, workerThreadPiP_, stopReturned, uninitUnch>>

\* Stop, lines 156-158: Stop() returns into Uninitialize.
UninitializeJoinPiP ==
    /\ HostStep
    /\ hostPc = "ujoinPiP"
    /\ workerThreadPiP_ # 0 => Finished(workerThreadPiP_)
    /\ workerThreadPiP_' = 0
    /\ hostPc' = "peek"
    /\ stopReturned' = TRUE
    /\ HostQuiet
    /\ UNCHANGED <<flags, workerThread_, uninitUnch>>

\* Uninitialize, line 168: PeekMessage(PM_REMOVE) removes a pending message
\* without dispatching it, or finds none and ends the loop.
UninitializePeek ==
    /\ HostStep
    /\ hostPc = "peek"
    /\ IF \E m \in Messages : queue[m] > 0
       THEN /\ \E m \in Messages : queue[m] > 0 /\ queue' = [queue EXCEPT ![m] = @ - 1]
            /\ hostPc' = "peek"
       ELSE /\ queue' = queue
            /\ hostPc' = "unhook"
    /\ HostQuiet
    /\ UNCHANGED <<flags, handles, we_have_pip_, initialized, threads, nCreated, terminated,
                   stopReturned, hostUnch>>

\* Uninitialize returns with the hook still installed.
UninitializeKeepsHook ==
    /\ HostStep
    /\ hostPc = "unhook"
    /\ hostPc' = "idle"
    /\ uninitReturned' = TRUE
    /\ HostQuiet
    /\ UNCHANGED <<flags, handles, we_have_pip_, initialized, threads, nCreated, queue,
                   terminated, stopReturned, sessUnch, playerParams_, config, setupPc>>

\* Uninitialize, lines 170-173: the window gets its original procedure back.
UninitializeUnhook ==
    /\ HostStep
    /\ hostPc = "unhook"
    /\ initialized' = FALSE
    /\ hostPc' = "idle"
    /\ uninitReturned' = TRUE
    /\ HostQuiet
    /\ UNCHANGED <<flags, handles, we_have_pip_, threads, nCreated, queue, terminated,
                   stopReturned, sessUnch, playerParams_, config, setupPc>>

\* The window's original procedure handles a posted message: the player is not
\* involved.
OriginalWndProc ==
    /\ HostStep
    /\ hostPc = "idle" /\ ~initialized
    /\ \E m \in Messages : queue[m] > 0 /\ queue' = [queue EXCEPT ![m] = @ - 1]
    /\ HostQuiet
    /\ UNCHANGED <<flags, handles, we_have_pip_, initialized, threads, nCreated, hostPc,
                   terminated, stopReturned, hostUnch>>

\* ---------------------------------------------------- the setup calls
\* The arguments the host passes to SetupZoom.
ZoomArgs == (0 - 1)..MaxZoom

\* What no setup call writes.
setupUnch == <<flags, handles, we_have_pip_, initialized, threads, nCreated, hostPc, queue,
               terminated, stopReturned, sessUnch, playerParams_, uninitReturned>>

\* SetupZoom, line 254, on the thread that calls it.
SetupZoomWrite ==
    /\ HostStep
    /\ initialized /\ setupPc = "idle"
    /\ \E zoom \in ZoomArgs : zoom_' = zoom
    /\ setupPc' = "clamp"
    /\ HostQuiet
    /\ UNCHANGED <<pip_left_, pip_top_, pip_width_, cross_, setupUnch>>

\* SetupZoom, line 255.
SetupZoomClamp ==
    /\ HostStep
    /\ setupPc = "clamp"
    /\ zoom_' = IF zoom_ < 1 THEN 1 ELSE zoom_
    /\ setupPc' = "idle"
    /\ HostQuiet
    /\ UNCHANGED <<pip_left_, pip_top_, pip_width_, cross_, setupUnch>>

\* SetupCross, lines 258-261.
SetupCross ==
    /\ HostStep
    /\ initialized
    /\ \E cross \in 0..MaxCross : cross_' = cross
    /\ HostQuiet
    /\ UNCHANGED <<pip_left_, pip_top_, pip_width_, zoom_, setupPc, setupUnch>>

\* SetupPiP, lines 245-250.
SetupPiP ==
    /\ HostStep
    /\ initialized
    /\ \E pip_width \in {0, 2}, pip_top \in {0 - 1, 0}, pip_left \in {0 - 1, 0} :
         /\ pip_left_' = pip_left
         /\ pip_top_' = pip_top
         /\ pip_width_' = pip_width
    /\ HostQuiet
    /\ UNCHANGED <<zoom_, cross_, setupPc, setupUnch>>

\* ----------------------------------------------------------- Frame::Draw
\* C++ integer division: the quotient is truncated towards zero.
Quot(a, b) ==
    IF (a >= 0) = (b > 0) THEN (IF a >= 0 THEN a ELSE 0 - a) \div (IF b > 0 THEN b ELSE 0 - b)
    ELSE 0 - ((IF a >= 0 THEN a ELSE 0 - a) \div (IF b > 0 THEN b ELSE 0 - b))

\* A byte that wraps at 256 although 0xFF - value is exceeded.
brightenWraps(p, value) == (p + value) % 256

\* Frame::brightenUp, line 126, on one channel byte p (uint8_t arithmetic).
brightenByte(p, value) == IF p < 255 - value THEN (p + value) % 256 ELSE 255

\* Frame::brightenUp, lines 124-129: the three bytes at ptr = pixelsPtr_ + off.
\* A byte outside the array is not a byte of this frame.
brightenUp(pixels, off, value) ==
    [i \in 1..Len(pixels) |->
        IF off < i /\ i <= off + 3 THEN brightenByte(pixels[i], value) ELSE pixels[i]]

\* Draw, lines 94-96: the effective half-length and the stroke half-width.
CrossLength(cross, zoom) == Quot(cross, zoom)
CrossWidth(cross, zoom) ==
    IF Quot(CrossLength(cross, zoom), 8) < 1 THEN 1 ELSE Quot(CrossLength(cross, zoom), 8)

\* Draw, lines 101, 106, 111: the byte offset of the pixel addressed as (x, y).
PixelOffset(f, x, y) == (f.width_ * y + x) * 3

\* Draw, lines 99-113: the pixels (dx, dy) relative to the centre that the three
\* loops pass to brightenUp, in the order of the calls.
CrossPixels(cross, zoom) ==
    LET c == CrossLength(cross, zoom)
        cw == CrossWidth(cross, zoom)
        n == 2 * cw + 1
        horizontal == [k \in 1..((2 * c + 1) * n) |->
                          <<((k - 1) \div n) - c, ((k - 1) % n) - cw>>]
        above == IF c > cw
                 THEN [k \in 1..((c - cw) * n) |-> <<((k - 1) % n) - cw, ((k - 1) \div n) - c>>]
                 ELSE <<>>
        below == IF c > cw
                 THEN [k \in 1..((c - cw) * n) |-> <<((k - 1) % n) - cw, ((k - 1) \div n) + cw + 1>>]
                 ELSE <<>>
    IN  horizontal \o above \o below

\* The byte offsets brightenUp is called with, in order.
CrossOffsets(f, cross, zoom) ==
    LET px == CrossPixels(cross, zoom)
    IN  [k \in 1..Len(px) |->
            PixelOffset(f, Quot(f.width_, 2) + px[k][1], Quot(f.height_, 2) + px[k][2])]

RECURSIVE BrightenAll(_, _, _)
BrightenAll(pixels, offsets, k) ==
    IF k > Len(offsets) THEN pixels
    ELSE BrightenAll(brightenUp(pixels, offsets[k], BrightenValue), offsets, k + 1)

\* The zoomed rectangle taken from the frame's origin instead of its centre.
SourceRectAtOrigin(f, zoom) ==
    IF zoom > 1
    THEN [xSrc |-> 0, ySrc |-> 0,
          dxSrc |-> Quot(f.width_, zoom), dySrc |-> Quot(f.height_, zoom)]
    ELSE [xSrc |-> 0, ySrc |-> 0, dxSrc |-> f.width_, dySrc |-> f.height_]

\* Draw, lines 81-91: the source rectangle of the final blit.
SourceRect(f, zoom) ==
    IF zoom > 1
    THEN [xSrc |-> Quot(f.width_ - Quot(f.width_, zoom), 2),
          ySrc |-> Quot(f.height_ - Quot(f.height_, zoom), 2),
          dxSrc |-> Quot(f.width_, zoom), dySrc |-> Quot(f.height_, zoom)]
    ELSE [xSrc |-> 0, ySrc |-> 0, dxSrc |-> f.width_, dySrc |-> f.height_]

\* Draw, lines 68-74: the overlay's destination rectangle (left and top as the
\* code computes them, width and height) and the DstY passed to StretchDIB.
PipRect(f, pip, pip_width, pip_top, pip_left) ==
    LET w == IF pip_width <= 0 THEN pip.width_ ELSE pip_width
        h == IF pip_width <= 0 THEN pip.height_
             ELSE Quot(pip_width * pip.height_, pip.width_)
        left == IF pip_left < 0 THEN Quot(f.width_ - w, 2) ELSE pip_left
        top == IF pip_top < 0 THEN Quot(f.height_ - h, 2) ELSE pip_top
    IN  [left |-> left, top |-> top, width |-> w, height |-> h,
         DstY |-> pip.height_ - top - h]

\* ::StretchDIB, lines 76-78: the overlay's pixels, scaled to DstXE x DstYE, are
\* written into the destination DIB at (DstX, DstY); rows count from the first
\* stored row (the bottom of the picture). Nearest source pixel; pixels outside
\* the destination DIB are not pixels of this frame.
StretchDIB(f, DstX, DstY, DstXE, DstYE, pip) ==
    [i \in 1..Len(f.pixelsPtr_) |->
        LET row == (i - 1) \div Stride(f)
            col == ((i - 1) % Stride(f)) \div 3
            ch  == ((i - 1) % Stride(f)) % 3
        IN  IF /\ ((i - 1) % Stride(f)) < 3 * f.width_
               /\ DstX <= col /\ col < DstX + DstXE
               /\ DstY <= row /\ row < DstY + DstYE
            THEN pip.pixelsPtr_[Stride(pip) * (((row - DstY) * pip.height_) \div DstYE)
                                + 3 * (((col - DstX) * pip.width_) \div DstXE) + ch + 1]
            ELSE f.pixelsPtr_[i]]

NoDraw == [op |-> "none"]

\* Frame::Draw, lines 48-122: what one call does to the frame (frame) and what
\* it hands to StretchDIB (rect), brightenUp (offsets) and DrawDibDraw (src).
\* clientWidth is rc.right - rc.left of the window.
Draw(f, clientWidth, zoom, cross, pip, pip_width, pip_top, pip_left) ==
    IF clientWidth = 0
    THEN [op |-> "Draw", painted |-> FALSE, before |-> f, frame |-> f]
    ELSE
    LET rect == IF pip = Null THEN Null
                ELSE PipRect(f, pip, pip_width, pip_top, pip_left)
        composed == IF pip = Null THEN f
                    ELSE [f EXCEPT !.pixelsPtr_ =
                             StretchDIB(f, rect.left, rect.DstY, rect.width, rect.height, pip)]
        offsets == IF cross > 0 THEN CrossOffsets(f, cross, zoom) ELSE <<>>
        crossed == [composed EXCEPT !.pixelsPtr_ = BrightenAll(@, offsets, 1)]
    IN  [op |-> "Draw", painted |-> TRUE, before |-> f, frame |-> crossed, zoom |-> zoom,
         cross |-> cross, pip |-> pip, pip_width |-> pip_width, pip_top |-> pip_top,
         pip_left |-> pip_left, rect |-> rect, offsets |-> offsets,
         src |-> SourceRect(f, zoom)]

FrameInit ==
    /\ frame = Null
    /\ picture = Null
    /\ prevPicture = Null
    /\ bmp = Null
    /\ exportedFrom = Null
    /\ drawn = NoDraw

\* The decoder's first picture of a stream: make_unique<Frame>(width, height, picture).
NewFrame ==
    /\ \E width \in 1..MaxW, height \in 1..MaxH, g \in Garbage :
         \E p \in Pictures(width, height) :
            /\ frame' = Frame(width, height, p, g)
            /\ picture' = p
    /\ prevPicture' = Null
    /\ drawn' = NoDraw
    /\ UNCHANGED <<bmp, exportedFrom, playerVars, lockVars>>

\* A later picture of the same stream: framePtr->Update(picture).
FrameUpdate ==
    /\ frame # Null
    /\ \E p \in Pictures(frame.width_, frame.height_) :
            /\ frame' = Update(frame, p)
            /\ picture' = p
    /\ prevPicture' = picture
    /\ drawn' = NoDraw
    /\ UNCHANGED <<bmp, exportedFrom, playerVars, lockVars>>

\* GetCurrentFrame: framePtr_->ToBmp(bmpPtr); CoTaskMemAlloc succeeds or not.
FrameToBmp ==
    /\ frame # Null
    /\ \E allocOk \in BOOLEAN :
         /\ bmp' = IF allocOk THEN ToBmp(frame) ELSE Null
         /\ exportedFrom' = IF allocOk THEN frame ELSE Null
    /\ UNCHANGED <<frame, picture, prevPicture, drawn, playerVars, lockVars>>

\* The overlay frames a Draw can be given, and the SetupPiP settings with them.
Overlays == { Frame(1, 1, AVPicture(1, 1, MaxSeed + 1), 0),
              Frame(1, 2, AVPicture(1, 2, MaxSeed + 1), 0) }

PipChoices ==
    {[pip |-> Null, pip_width |-> 0, pip_top |-> 0, pip_left |-> 0]}
    \cup {[pip |-> o, pip_width |-> w, pip_top |-> tl, pip_left |-> tl] :
             o \in Overlays, w \in {0, 2}, tl \in {0 - 1, 0}}

\* DrawFrame, lines 176-183, on WM_PAINT: framePtr_->Draw(window, zoom_, cross_
\* [, overlay frame, pip_width_, pip_top_, pip_left_]).
FrameDraw ==
    /\ frame # Null /\ drawn = NoDraw
    /\ \E clientWidth \in {0, 1}, zoom \in 1..MaxZoom, cross \in 0..MaxCross,
          p \in PipChoices :
         /\ drawn' = Draw(frame, clientWidth, zoom, cross, p.pip, p.pip_width,
                          p.pip_top, p.pip_left)
         /\ frame' = drawn'.frame
    /\ UNCHANGED <<picture, prevPicture, bmp, exportedFrom, playerVars, lockVars>>

\* A 1 x 1 frame whose pixel has any value in its first channel (and values a
\* third and two thirds of the range further in the others).
PixelFrames ==
    { [width_ |-> 1, height_ |-> 1, lineSize |-> 3,
       pixelsPtr_ |-> <<p, (p + 85) % 256, (p + 170) % 256, 0>>] : p \in 0..255 }

\* One call brightenUp(pixelsPtr_, 0x6F) on the frame's pixel.
BrightenPixel ==
    /\ frame' = [frame EXCEPT !.pixelsPtr_ = brightenUp(@, 0, BrightenValue)]
    /\ drawn' = [op |-> "brightenUp", before |-> frame, frame |-> frame']
    /\ UNCHANGED <<picture, prevPicture, bmp, exportedFrom, playerVars, lockVars>>

\* ------------------------------------------------- Frames and their mutexes
\* The primary frame and the overlay frame, each with its own Frame::mutex_.
Frames == {"main", "pip"}

LockInit ==
    /\ frameMutex = [f \in Frames |-> "none"]
    /\ rows = [f \in Frames |-> [y \in 1..FrameRows |-> 0]]
    /\ updater = [f \in Frames |-> [pc |-> "idle", y |-> 0, v |-> 0]]
    /\ reader = [pc |-> "idle", op |-> "none", y |-> 0,
                 seen |-> [f \in Frames |-> <<>>]]

lockUnch == <<playerVars, frameVars>>

\* Update, Draw and ToBmp begin without waiting for the mutex.
NoLock(f) == TRUE

\* unique_lock<mutex> lock(mutex_) on frame f returns: lines 34, 50, 66, 135.
unique_lock(f) == frameMutex[f] = "none"

\* The decode thread of frame f calls framePtr->Update(picture).
UpdateCall(f) ==
    /\ updater[f].pc = "idle" /\ updater[f].v < MaxUpdates
    /\ updater' = [updater EXCEPT ![f].pc = "lock"]
    /\ UNCHANGED <<frameMutex, rows, reader, lockUnch>>

\* Update, line 34.
UpdateLock(f) ==
    /\ updater[f].pc = "lock"
    /\ unique_lock(f)
    /\ frameMutex' = [frameMutex EXCEPT ![f] = "decode"]
    /\ updater' = [updater EXCEPT ![f] = [pc |-> "rows", y |-> 0, v |-> @.v + 1]]
    /\ UNCHANGED <<rows, reader, lockUnch>>

\* Update, lines 39-45: one row of the new picture.
UpdateRowStep(f) ==
    /\ updater[f].pc = "rows" /\ updater[f].y < FrameRows
    /\ rows' = [rows EXCEPT ![f][updater[f].y + 1] = updater[f].v]
    /\ updater' = [updater EXCEPT ![f].y = @ + 1]
    /\ UNCHANGED <<frameMutex, reader, lockUnch>>

\* Update returns with the mutex still held.
UpdateKeepsLock(f) ==
    /\ updater[f].pc = "rows" /\ updater[f].y = FrameRows
    /\ updater' = [updater EXCEPT ![f].pc = "idle"]
    /\ UNCHANGED <<frameMutex, rows, reader, lockUnch>>

\* Update, line 46: the lock's destructor.
UpdateUnlock(f) ==
    /\ updater[f].pc = "rows" /\ updater[f].y = FrameRows
    /\ frameMutex' = [frameMutex EXCEPT ![f] = "none"]
    /\ updater' = [updater EXCEPT ![f].pc = "idle"]
    /\ UNCHANGED <<rows, reader, lockUnch>>

\* The host thread calls Draw on the primary frame, with the overlay frame or
\* without, or ToBmp.
ReaderCall ==
    /\ reader.pc = "idle"
    /\ \E op \in {"Draw", "DrawPiP", "ToBmp"} :
         reader' = [pc |-> "lock", op |-> op, y |-> 0, seen |-> [f \in Frames |-> <<>>]]
    /\ UNCHANGED <<frameMutex, rows, updater, lockUnch>>

\* Draw, line 50, or ToBmp, line 135.
ReaderLock ==
    /\ reader.pc = "lock"
    /\ unique_lock("main")
    /\ frameMutex' = [frameMutex EXCEPT !["main"] = "host"]
    /\ reader' = [reader EXCEPT !.pc = IF reader.op = "DrawPiP" THEN "piplock" ELSE "main"]
    /\ UNCHANGED <<rows, updater, lockUnch>>

\* Draw, line 66.
DrawLockPiP ==
    /\ reader.pc = "piplock"
    /\ unique_lock("pip")
    /\ frameMutex' = [frameMutex EXCEPT !["pip"] = "host"]
    /\ reader' = [reader EXCEPT !.pc = "pip"]
    /\ UNCHANGED <<rows, updater, lockUnch>>

\* Draw, lines 76-78: StretchDIB reads the overlay's rows.
DrawStretchDIB ==
    /\ reader.pc = "pip" /\ reader.y < FrameRows
    /\ reader' = [reader EXCEPT !.y = @ + 1,
                                !.seen["pip"] = Append(@, rows["pip"][reader.y + 1])]
    /\ UNCHANGED <<frameMutex, rows, updater, lockUnch>>

\* Draw, line 79: the overlay's lock ends with its block.
DrawUnlockPiP ==
    /\ reader.pc = "pip" /\ reader.y = FrameRows
    /\ frameMutex' = [frameMutex EXCEPT !["pip"] = "none"]
    /\ reader' = [reader EXCEPT !.pc = "main", !.y = 0]
    /\ UNCHANGED <<rows, updater, lockUnch>>

\* Draw, lines 116-117 (DrawDibDraw), or ToBmp, line 153 (CopyMemory): the
\* primary frame's rows are read.
ReadRow ==
    /\ reader.pc = "main" /\ reader.y < FrameRows
    /\ reader' = [reader EXCEPT !.y = @ + 1,
                                !.seen["main"] = Append(@, rows["main"][reader.y + 1])]
    /\ UNCHANGED <<frameMutex, rows, updater, lockUnch>>

\* Draw, line 122, or ToBmp, line 154.
ReaderUnlock ==
    /\ reader.pc = "main" /\ reader.y = FrameRows
    /\ frameMutex' = [frameMutex EXCEPT !["main"] = "none"]
    /\ reader' = [reader EXCEPT !.pc = "idle"]
    /\ UNCHANGED <<rows, updater, lockUnch>>

\* ------------------------------------------------------------- the player
Init == PlayerInit /\ FrameInit /\ LockInit

\* One step of worker thread t.
ThreadStep(t) == t \in ThreadIds /\ (Play(t) \/ PlayPiP(t))

Next ==
    \/ \E t \in ThreadIds : PlayTryLock(t)
    \/ \E t \in ThreadIds : PlayClearStop(t)
    \/ \E t \in ThreadIds : PlayResetFrame(t)
    \/ \E t \in ThreadIds : PlayGetNextFrame(t)
    \/ \E t \in ThreadIds : PlayCheckStop(t)
    \/ \E t \in ThreadIds : PlayFirstFrame(t)
    \/ \E t \in ThreadIds : PlayCatch(t)
    \/ \E t \in ThreadIds : PlayUnlock(t)
    \/ \E t \in ThreadIds : PlayPiPTryLock(t)
    \/ \E t \in ThreadIds : PlayPiPClearStop(t)
    \/ \E t \in ThreadIds : PlayPiPResetFrame(t)
    \/ \E t \in ThreadIds : PlayPiPGetNextFrame(t)
    \/ \E t \in ThreadIds : PlayPiPCheckStop(t)
    \/ \E t \in ThreadIds : PlayPiPFirstFrame(t)
    \/ \E t \in ThreadIds : PlayPiPCatch(t)
    \/ \E t \in ThreadIds : PlayPiPUnlock(t)
    \/ Initialize
    \/ StartPlay
    \/ StartPlayTerminate
    \/ StartPlayPiP
    \/ StartPlayPiPTerminate
    \/ StopRequest
    \/ StopRequestPiP
    \/ StopJoin
    \/ StopJoinPiP
    \/ WndProc
    \/ DrawFrame

Spec == Init /\ [][Next]_vars

\* The scheduler runs every thread that can run: each worker thread takes its
\* next step, and the host thread goes on inside Stop.
Fairness ==
    /\ \A t \in 1..MaxThreads : WF_vars(ThreadStep(t))
    /\ WF_vars(StopRequestPiP \/ StopJoin \/ StopJoinPiP)

FairSpec == Init /\ [][Next]_vars /\ Fairness

\* The host starts primary streams and queries the frame (the queries read the
\* player's state and write none of it).
ApiNext ==
    \/ \E t \in ThreadIds : PlayTryLock(t)
    \/ \E t \in ThreadIds : PlayClearStop(t)
    \/ \E t \in ThreadIds : PlayResetFrame(t)
    \/ \E t \in ThreadIds : PlayGetNextFrame(t)
    \/ \E t \in ThreadIds : PlayCheckStop(t)
    \/ \E t \in ThreadIds : PlayFirstFrame(t)
    \/ \E t \in ThreadIds : PlayCatch(t)
    \/ \E t \in ThreadIds : PlayUnlock(t)
    \/ Initialize
    \/ StartPlay
    \/ GetCurrentFrame
    \/ GetFrameSize

ApiSpec == Init /\ [][ApiNext]_vars

\* The primary session against the dispatch thread's calls on the frame, each
\* call taking time.
FrameUseNext ==
    \/ \E t \in ThreadIds : PlayTryLock(t)
    \/ \E t \in ThreadIds : PlayClearStop(t)
    \/ \E t \in ThreadIds : PlayResetFrame(t)
    \/ \E t \in ThreadIds : PlayGetNextFrame(t)
    \/ \E t \in ThreadIds : PlayCheckStop(t)
    \/ \E t \in ThreadIds : PlayFirstFrame(t)
    \/ \E t \in ThreadIds : PlayCatch(t)
    \/ \E t \in ThreadIds : PlayUnlock(t)
    \/ Initialize
    \/ StartPlay
    \/ WndProc
    \/ FrameCallEnter
    \/ FrameCallReturn

FrameUseSpec == Init /\ [][FrameUseNext]_vars

\* The primary session from Initialize to Uninitialize, and after it.
UninitNext ==
    \/ \E t \in ThreadIds : PlayTryLock(t)
    \/ \E t \in ThreadIds : PlayClearStop(t)
    \/ \E t \in ThreadIds : PlayResetFrame(t)
    \/ \E t \in ThreadIds : PlayGetNextFrame(t)
    \/ \E t \in ThreadIds : PlayCheckStop(t)
    \/ \E t \in ThreadIds : PlayFirstFrame(t)
    \/ \E t \in ThreadIds : PlayCatch(t)
    \/ \E t \in ThreadIds : PlayUnlock(t)
    \/ Initialize
    \/ StartPlay
    \/ WndProc
    \/ DrawFrame
    \/ UninitializeStop
    \/ UninitializeStopPiP
    \/ UninitializeJoin
    \/ UninitializeJoinPiP
    \/ UninitializePeek
    \/ UninitializeUnhook
    \/ OriginalWndProc

UninitSpec == Init /\ [][UninitNext]_vars

\* Initialize with any parameters, followed by the primary session.
InitializeNext ==
    \/ UninitNext
    \/ InitializeAsserts
    \/ InitializeUnchecked

InitializeSpec == Init /\ [][InitializeNext]_vars

\* The primary session, the setup calls on their callers' threads, and paints.
SetupNext ==
    \/ \E t \in ThreadIds : PlayTryLock(t)
    \/ \E t \in ThreadIds : PlayClearStop(t)
    \/ \E t \in ThreadIds : PlayResetFrame(t)
    \/ \E t \in ThreadIds : PlayGetNextFrame(t)
    \/ \E t \in ThreadIds : PlayCheckStop(t)
    \/ \E t \in ThreadIds : PlayFirstFrame(t)
    \/ \E t \in ThreadIds : PlayCatch(t)
    \/ \E t \in ThreadIds : PlayUnlock(t)
    \/ Initialize
    \/ StartPlay
    \/ SetupZoomWrite
    \/ SetupZoomClamp
    \/ SetupCross
    \/ SetupPiP
    \/ DrawFrame

SetupSpec == Init /\ [][SetupNext]_vars

\* One Frame: created from a first picture, updated, exported.
FrameNext ==
    \/ NewFrame
    \/ FrameUpdate
    \/ FrameToBmp

FrameSpec == Init /\ [][FrameNext]_vars

\* One Frame: created, updated, and painted by Draw.
DrawNext ==
    \/ NewFrame
    \/ FrameUpdate
    \/ FrameDraw

DrawSpec == Init /\ [][DrawNext]_vars

\* brightenUp on every pixel value.
BrightenInit ==
    /\ PlayerInit /\ LockInit
    /\ frame \in PixelFrames
    /\ picture = Null /\ prevPicture = Null /\ bmp = Null /\ exportedFrom = Null
    /\ drawn = NoDraw

BrightenSpec == BrightenInit /\ [][BrightenPixel]_vars

\* The two decode threads in Update against the host thread in Draw / ToBmp.
LockNext ==
    \/ \E f \in Frames : UpdateCall(f)
    \/ \E f \in Frames : UpdateLock(f)
    \/ \E f \in Frames : UpdateRowStep(f)
    \/ \E f \in Frames : UpdateUnlock(f)
    \/ ReaderCall
    \/ ReaderLock
    \/ DrawLockPiP
    \/ DrawStretchDIB
    \/ DrawUnlockPiP
    \/ ReadRow
    \/ ReaderUnlock

LockSpec == Init /\ [][LockNext]_vars

\* Fair scheduling of the three threads: a thread inside Update, Draw or ToBmp
\* goes on, and a thread waiting in unique_lock gets the mutex if the mutex is
\* free again and again. (Calls are not forced.)
LockFairness ==
    /\ \A f \in Frames : SF_vars(UpdateLock(f))
    /\ \A f \in Frames : WF_vars(UpdateRowStep(f) \/ UpdateUnlock(f))
    /\ SF_vars(ReaderLock)
    /\ SF_vars(DrawLockPiP)
    /\ WF_vars(DrawStretchDIB \/ DrawUnlockPiP \/ ReadRow \/ ReaderUnlock)

LockFairSpec == Init /\ [][LockNext]_vars /\ LockFairness

\* ======================================================== the claims
\* ---- C1: for each session at most one decode loop runs at any time: every
\* thread that is past try_lock owns its session's run token (so no thread
\* clears the stop flag or resets the frame buffer without it), and a Start
\* issued while a loop is running returns at once, the token staying with the
\* running loop.
OwnsToken(t) ==
    IF threads[t].sess = "main" THEN mutex_ = t ELSE mutexPiP_ = t

C1_OneDecodeLoopPerSession ==
    /\ \A t \in ThreadIds : InRun(t) => OwnsToken(t)
    /\ \A t, u \in ThreadIds :
         (InRun(t) /\ InRun(u) /\ threads[t].sess = threads[u].sess) => t = u
    /\ exited.pc = "start" =>
         \E t \in ThreadIds : /\ threads[t].sess = exited.sess
                              /\ InRun(t) /\ OwnsToken(t)

\* A second StartPlay was skipped while the first run is inside its loop.
C1_Witness ==
    /\ exited.pc = "start" /\ exited.sess = "main"
    /\ \E t \in ThreadIds : threads[t].sess = "main" /\ threads[t].pc = "check"

\* ---- C2: after Stop() has returned (and before the next Start), no decode
\* thread of either session is still running, so none can post a notification.
C2_NoThreadAfterStop == stopReturned => ThreadIds = {}

\* ---- C3: every call to Stop() eventually returns (the decoder always returns
\* and the sleep always ends: every thread keeps taking steps).
C3_StopReturns == (hostPc # "idle") ~> (hostPc = "idle")

\* ---- C4: the rows one Draw or ToBmp reads from a frame were all written by
\* the same Update (all from before a concurrent Update or all from after it).
C4_NoTornRead ==
    \A f \in Frames : \A i, j \in DOMAIN reader.seen[f] :
        reader.seen[f][i] = reader.seen[f][j]

\* The host has read one row of an updated primary frame while the decode
\* thread is inside Update, waiting for the mutex.
C4_Witness ==
    /\ reader.pc = "main" /\ Len(reader.seen["main"]) = 1
    /\ reader.seen["main"][1] > 0
    /\ updater["main"].pc = "lock"

\* ---- C5: a primary run in which the decoder raised an error has posted
\* exactly one Failed once it is through its handler, never posts Stopped, and
\* posts nothing after the Failed notification.
C5_FailedRun ==
    \A t \in ThreadIds :
        threads[t].sess = "main" =>
            /\ (threads[t].raised /\ threads[t].pc = "unlock") => threads[t].nFailed = 1
            /\ threads[t].raised => threads[t].nStopped = 0
            /\ threads[t].nFailed > 0 =>
                   /\ threads[t].nFailed = 1
                   /\ threads[t].last = WM_STREAMFAILED
                   /\ threads[t].pc = "unlock"

\* A run that failed after its first frame (Started was posted before).
C5_Witness ==
    \E t \in ThreadIds :
        /\ threads[t].raised /\ threads[t].pc = "unlock"
        /\ threads[t].nStarted = 1 /\ threads[t].nFailed = 1

\* ---- C6: a StartPlay issued once the host has handled the Stopped/Failed
\* notification of the primary run acquires the run token: its thread is not
\* skipped because of that run (only a later StartPlay can take the token
\* from it).
C6_RestartAcquiresToken ==
    (exited.pc = "start" /\ exited.idleAtStart) => mutex_ > exited.id

\* ---- C7: the host callbacks and Draw never run on a decode thread: whatever
\* runs them is the host window's dispatch thread.
C7_CallsOnHostThread == lastCall.fn # "none" => lastCall.thread = "host"

\* The host's Failed callback has run.
C7_Witness == lastCall.fn = "streamFailedCallback" /\ lastCall.thread = "host"

\* ---- C8: GetCurrentFrame and GetFrameSize return status 1 when the primary
\* session has produced no frame (no frame buffer exists); with a frame buffer
\* both succeed (GetCurrentFrame: when the snapshot could be allocated), and
\* GetFrameSize's width and height are those in the snapshot's header.
C8_FrameQueries ==
    /\ (apiResult.op # "none" /\ framePtr_ = Null) =>
           apiResult.status = 1
    /\ (apiResult.op = "GetFrameSize" /\ framePtr_ # Null) =>
           /\ apiResult.status = 0
           /\ apiResult.width = ToBmpHeader(framePtr_).biWidth
           /\ apiResult.height = ToBmpHeader(framePtr_).biHeight
    /\ (apiResult.op = "GetCurrentFrame" /\ framePtr_ # Null /\ apiResult.allocOk) =>
           /\ apiResult.status = 0
           /\ apiResult.header.biWidth = framePtr_.width_
           /\ apiResult.header.biHeight = framePtr_.height_

\* GetFrameSize succeeded on a frame whose width and height differ.
C8_Witness ==
    /\ apiResult.op = "GetFrameSize" /\ apiResult.status = 0
    /\ apiResult.width # apiResult.height

\* ---- C9: a snapshot holds a header with the frame's width, height and bit
\* depth 24, followed by exactly height * stride pixel bytes (stride: 3 * width
\* rounded up to a multiple of 4, the stride of the internal storage and the one
\* the managed side reads with), each equal to the byte of the internal storage
\* at the same offset at export time.
C9_SnapshotRoundTrip ==
    bmp # Null =>
        /\ bmp.header.biWidth = exportedFrom.width_
        /\ bmp.header.biHeight = exportedFrom.height_
        /\ bmp.header.biBitCount = 24
        /\ ProxyStride(bmp.header) = Stride(exportedFrom)
        /\ Len(bmp.pixels) = exportedFrom.height_ * Stride(exportedFrom)
        /\ \A i \in 1..Len(bmp.pixels) : bmp.pixels[i] = exportedFrom.pixelsPtr_[i]

\* ---- C10: after Update(P) stored row y holds the bytes of source row
\* height - 1 - y followed by zero padding, for every y; so the storage is what
\* Update(P) alone produces on a fresh buffer, whatever was stored before.
C10_UpdateFlipsAndPads ==
    frame # Null =>
        /\ Len(frame.pixelsPtr_) = frame.height_ * Stride(frame)
        /\ \A y \in 0..(frame.height_ - 1) : \A x \in 0..(Stride(frame) - 1) :
              frame.pixelsPtr_[Stride(frame) * y + x + 1] =
                 IF x < picture.linesize
                 THEN picture.data[(frame.height_ - 1 - y) * picture.linesize + x + 1]
                 ELSE 0
        /\ \A g \in Garbage :
              frame.pixelsPtr_ = Frame(frame.width_, frame.height_, picture, g).pixelsPtr_

\* Update(P1) then Update(P2), P1 # P2, on a frame with padding and two rows.
C10_Witness ==
    /\ frame # Null /\ prevPicture # Null /\ prevPicture # picture
    /\ GetPadding(frame.lineSize) > 0 /\ frame.height_ > 1

\* ---- C11: the source rectangle Draw hands to the final blit is, for zoom > 1,
\* (W/z, H/z) in size with origin ((W - W/z)/2, (H - H/z)/2) and lies inside the
\* W x H frame; for zoom = 1 it is the full frame (0, 0, W, H).
C11_ZoomSourceRect ==
    (drawn # NoDraw /\ drawn.painted) =>
        LET W == drawn.before.width_
            H == drawn.before.height_
            z == drawn.zoom
            r == drawn.src
        IN  /\ z > 1 => /\ r.dxSrc = W \div z /\ r.dySrc = H \div z
                         /\ r.xSrc = (W - (W \div z)) \div 2
                         /\ r.ySrc = (H - (H \div z)) \div 2
            /\ z = 1 => r = [xSrc |-> 0, ySrc |-> 0, dxSrc |-> W, dySrc |-> H]
            /\ 0 <= r.xSrc /\ 0 <= r.ySrc /\ 0 <= r.dxSrc /\ 0 <= r.dySrc
            /\ r.xSrc + r.dxSrc <= W /\ r.ySrc + r.dySrc <= H

\* A Draw with zoom > 1 on a frame whose sides the zoom does not divide evenly.
C11_Witness ==
    /\ drawn # NoDraw /\ drawn.painted /\ drawn.zoom > 1
    /\ drawn.before.width_ % drawn.zoom # 0 /\ drawn.src.xSrc > 0

\* ---- C12: after Initialize the zoom factor a paint reads is an integer >= 1,
\* whatever SetupZoom calls were made, also while one is running.
C12_PaintZoomAtLeastOne == lastCall.fn = "Draw" => lastCall.zoom >= 1

\* ---- C13: one Draw with crosshair half-length L > 0 at zoom z brightens, once
\* each, exactly the pixels of the horizontal arm (|dx| <= L/z, |dy| <= cw) and
\* the vertical arm (|dy| <= L/z, |dx| <= cw) around column W/2 of stored row
\* H/2, cw = max(1, (L/z)/8), pixel (x, y) being column x of stored row y
\* whatever the row padding. Stated for Draws without overlay whose crosshair
\* (L/z >= 1) lies inside the frame.
InArms(dx, dy, c, cw) ==
    \/ (0 - c <= dx /\ dx <= c /\ 0 - cw <= dy /\ dy <= cw)
    \/ (0 - c <= dy /\ dy <= c /\ 0 - cw <= dx /\ dx <= cw)

C13_CrosshairPixels ==
    (drawn # NoDraw /\ drawn.painted /\ drawn.cross > 0 /\ drawn.pip = Null) =>
        LET f == drawn.before
            W == f.width_
            H == f.height_
            c == drawn.cross \div drawn.zoom
            cw == IF c \div 8 < 1 THEN 1 ELSE c \div 8
            inside == /\ c >= 1
                      /\ (W \div 2) - c >= 0 /\ (W \div 2) + c < W
                      /\ (H \div 2) - c >= 0 /\ (H \div 2) + c < H
        IN  inside =>
              \A x \in 0..(W - 1), y \in 0..(H - 1), ch \in 0..2 :
                 drawn.frame.pixelsPtr_[Stride(f) * y + 3 * x + ch + 1] =
                    IF InArms(x - (W \div 2), y - (H \div 2), c, cw)
                    THEN Min(255, f.pixelsPtr_[Stride(f) * y + 3 * x + ch + 1] + BrightenValue)
                    ELSE f.pixelsPtr_[Stride(f) * y + 3 * x + ch + 1]

\* ---- C14: brightening replaces each of a pixel's three channel bytes p by
\* min(255, p + 0x6F): never smaller than p, never wrapped modulo 256; the
\* byte after the pixel is left alone.
C14_BrightenSaturates ==
    drawn.op = "brightenUp" =>
        /\ \A ch \in 1..3 :
              /\ drawn.frame.pixelsPtr_[ch] = Min(255, drawn.before.pixelsPtr_[ch] + 111)
              /\ drawn.frame.pixelsPtr_[ch] >= drawn.before.pixelsPtr_[ch]
              /\ drawn.frame.pixelsPtr_[ch] <= 255
        /\ drawn.frame.pixelsPtr_[4] = drawn.before.pixelsPtr_[4]

\* A pixel with one channel that saturates and one that does not.
C14_Witness ==
    /\ drawn.op = "brightenUp"
    /\ drawn.before.pixelsPtr_[1] > 144 /\ drawn.before.pixelsPtr_[1] < 255
    /\ drawn.frame.pixelsPtr_[1] = 255
    /\ drawn.before.pixelsPtr_[2] < 144

\* ---- C15: an overlay composited with negative top and left has its w x h
\* destination rectangle centred in the W x H primary frame: left edge
\* (W - w)/2, distance from the primary frame's top edge (H - h)/2, whatever the
\* overlay's native size. Stated for overlays that fit into the primary frame;
\* the stored rows count from the bottom of the picture.
C15_OverlayCentred ==
    (/\ drawn # NoDraw /\ drawn.painted /\ drawn.pip # Null
     /\ drawn.pip_top < 0 /\ drawn.pip_left < 0
     /\ drawn.rect.width <= drawn.before.width_
     /\ drawn.rect.height <= drawn.before.height_) =>
        /\ drawn.rect.left = (drawn.before.width_ - drawn.rect.width) \div 2
        /\ drawn.before.height_ - (drawn.rect.DstY + drawn.rect.height) =
               (drawn.before.height_ - drawn.rect.height) \div 2

\* ---- C16: once Uninitialize() has returned the message hook is removed, and
\* no step invokes a host callback or a paint of the player, whatever is
\* pending in the window's queue or posted afterwards.
C16_NoCallAfterUninitialize ==
    uninitReturned => (~initialized /\ lastCall = NoCall)

\* After Uninitialize returned, a decode thread that Stop() did not join has
\* posted Failed; the message is pending.
C16_Witness ==
    /\ uninitReturned /\ hostPc = "idle"
    /\ queue[WM_STREAMFAILED] > 0

\* ---- C17: Initialize called with a null window or a null callback returns the
\* failure status 1 and leaves the window without the message hook.
C17_InitializeRejectsNull ==
    apiResult.op = "Initialize" =>
        (apiResult.params \in InvalidParams => apiResult.status = 1 /\ ~initialized)

\* ---- C18: the overlay session posts no Started, Stopped or Failed
\* notification: the number of pending notifications of a kind grows only in a
\* step of a primary decode thread, and every callback invocation consumes one
\* pending notification of its kind.
C18_OverlayPostsNothing ==
    [][\A m \in {WM_STREAMSTARTED, WM_STREAMSTOPPED, WM_STREAMFAILED} :
          /\ queue'[m] > queue[m] =>
                \E t \in DOMAIN threads :
                    /\ threads[t].sess = "main"
                    /\ (t \in DOMAIN threads' => threads'[t] # threads[t])
          /\ lastCall'.fn = Callback(m) => queue'[m] = queue[m] - 1]_vars

\* An overlay run has failed and released its token path (catch block done)
\* while no notification is pending.
C18_Witness ==
    /\ \E t \in DOMAIN threads :
          threads[t].sess = "pip" /\ threads[t].pc = "unlock" /\ threads[t].raised
    /\ \A m \in {WM_STREAMSTARTED, WM_STREAMSTOPPED, WM_STREAMFAILED} : queue[m] = 0

\* The decoder constructor threw in the step (t went from line 55 to the catch
\* block).
OpenFailed(t) ==
    /\ threads[t].pc = "start"
    /\ t \in DOMAIN threads'
    /\ threads'[t].pc = "catch"

\* ---- C19: a run that has taken the token clears the stop flag and resets the
\* frame buffer before it opens the decoder, so a failed open leaves the
\* session with a cleared stop flag and no frame buffer (both sessions).
C19_ClearedBeforeOpen ==
    [][\A t \in DOMAIN threads :
          OpenFailed(t) =>
              IF threads[t].sess = "main"
              THEN stopRequested_' = FALSE /\ framePtr_' = Null
              ELSE stopRequestedPiP_' = FALSE /\ framePiPPtr_' = Null]_vars

\* ---- C20: in the decode loop of either session, a thread that has ingested a
\* picture and is about to sleep for the inter-frame delay has just posted the
\* repaint request WM_INVALIDATE.
C20_RepaintAfterEveryPicture ==
    \A t \in DOMAIN threads :
        threads[t].pc = "sleep" => threads[t].last = WM_INVALIDATE

\* ---- C21: a primary run posts Started at most once, right after the sleep
\* that follows its first repaint request and before any terminal
\* notification; a run that ends on the stop flag or the end of the stream
\* (no error raised) has posted exactly one Stopped and no Failed, and Stopped
\* is the last message it posted.
C21_StartedOnceStoppedLast ==
    [][\A t \in DOMAIN threads' :
          threads'[t].sess = "main" =>
              /\ threads'[t].nStarted <= 1
              /\ (t \in DOMAIN threads /\ threads'[t].nStarted > threads[t].nStarted) =>
                     /\ threads[t].last = WM_INVALIDATE
                     /\ threads[t].nStopped = 0 /\ threads[t].nFailed = 0
              /\ threads'[t].nStopped > 0 =>
                     /\ threads'[t].nStopped = 1 /\ threads'[t].nFailed = 0
                     /\ threads'[t].last = WM_STREAMSTOPPED
                     /\ threads'[t].pc = "unlock"
              /\ (threads'[t].pc = "unlock" /\ ~threads'[t].raised) =>
                     threads'[t].nStopped = 1]_vars

\* A run that posted Started and then ended with Stopped.
C21_Witness ==
    \E t \in DOMAIN threads :
        /\ threads[t].sess = "main" /\ threads[t].pc = "unlock" /\ ~threads[t].raised
        /\ threads[t].nStarted = 1 /\ threads[t].nStopped = 1
        /\ threads[t].last = WM_STREAMSTOPPED

\* The threads that take frame locks, the lock each one waits for, and the
\* thread that holds a lock.
LockThreads == {"decode main", "decode pip", "host"}

WaitsForLock(th) ==
    CASE th = "host" -> IF reader.pc = "lock" THEN "main"
                        ELSE IF reader.pc = "piplock" THEN "pip" ELSE "none"
      [] th = "decode main" -> IF updater["main"].pc = "lock" THEN "main" ELSE "none"
      [] th = "decode pip" -> IF updater["pip"].pc = "lock" THEN "pip" ELSE "none"

Holder(f) ==
    IF frameMutex[f] = "decode" THEN "decode " \o f ELSE frameMutex[f]

\* th waits for a lock that other holds.
WaitsFor(th, other) ==
    /\ WaitsForLock(th) # "none"
    /\ Holder(WaitsForLock(th)) = other

OverlayLive ==
    \E t \in ThreadIds :
        /\ threads[t].sess = "pip"
        /\ threads[t].pc \in {"fetch", "check", "sleep", "catch"}
        /\ ~threads[t].firstFrame
        /\ mutexPiP_ = t

\* ---- C23: the overlay-live flag we_have_pip_ is set only while an overlay
\* run that has completed its first frame is going on, so with no overlay run
\* the flag is false; a paint passes the overlay frame to Draw only in such a
\* state, and draws the primary frame alone otherwise.
C23_OverlayOnlyWhenLive ==
    /\ we_have_pip_ => OverlayLive
    /\ (\A t \in ThreadIds : threads[t].sess = "pip" => ~InRun(t)) => ~we_have_pip_
    /\ (lastCall.fn = "Draw" /\ lastCall.pip) => OverlayLive

\* A paint has drawn the primary frame with the overlay.
C23_Witness == lastCall.fn = "Draw" /\ lastCall.pip

\* ---- C24: Draw is read-only on the primary frame: for any zoom, crosshair
\* length and overlay settings the frame's stored pixels after the call equal
\* its stored pixels before the call.
C24_DrawLeavesPixels ==
    drawn.op = "Draw" => drawn.frame.pixelsPtr_ = drawn.before.pixelsPtr_

\* ---- C25: the frame buffer the dispatch thread found non-null stays alive
\* until the call it makes on it (Draw, ToBmp, Width/Height) has returned: no
\* decode thread destroys it (framePtr_ reset or dropped) meanwhile.
C25_FrameAliveWhileUsed ==
    [][(hostPc \in FrameCalls /\ framePtr_ # Null) => framePtr_' # Null]_vars

\* ---- C26: for every frame size and every crosshair length and zoom, each
\* pixel Draw brightens for the crosshair lies inside the frame's pixel
\* storage: its three bytes start at an offset >= 0 and end before the end of
\* the array.
C26_CrosshairInsideStorage ==
    (drawn.op = "Draw" /\ drawn.painted) =>
        \A k \in DOMAIN drawn.offsets :
            /\ drawn.offsets[k] >= 0
            /\ drawn.offsets[k] + 3 <= Len(drawn.before.pixelsPtr_)

====
